---- MODULE Spec2Model ----
(***************************************************************************)
(* A state-machine model of the in-memory B+ tree index of                 *)
(* src/include/storage/index/bplustree.h: the node heap, the recursive     *)
(* insert-with-split path up to root growth, the integrity checker and the *)
(* forward iterator.                                                       *)
(*                                                                         *)
(* The heap is the sequence `nodes`; a node's address is its index in it   *)
(* and nullptr is 0.  C++ arrays are 0-based, TLA+ sequences 1-based: the  *)
(* element a[i] of the source is a[i + 1] here (operator At).              *)
(***************************************************************************)
EXTENDS Integers, Sequences, FiniteSets, TLC

(***************************************************************************)
(* Bounds.  The source fixes both node capacities at 256; the model scales *)
(* them to SlotMax, the smallest capacity at which every split leaves each *)
(* half with at least one key, as it does at 256.                          *)
(***************************************************************************)
SlotMax == 3
MaxInserts == 10
MaxKey == 2
\* The client leaves the read-then-advance loop (it inserts while it holds an
\* iterator, or advances past a pair it has not read) only while the tree holds
\* fewer than MaxLoose pairs.
MaxLoose == 5

leaf_slotmax == SlotMax
inner_slotmax == SlotMax

Keys == 1..MaxKey

nullptr == 0
\* Content of an array slot that no statement has written yet (the node
\* constructors leave keys and values uninitialised).  It is outside Keys, and
\* no operation reads a slot before Insert has written it: the searches and
\* the checker stay below slotused, and an iterator only stands on slots that
\* were below slotused when it reached them.
Undef == 0

At(a, i) == a[i + 1]
Put(a, i, v) == [a EXCEPT ![i + 1] = v]

(***************************************************************************)
(* Node constructors                                                       *)
(***************************************************************************)
NewLeafNode ==
    [type |-> "Leaf", slotused |-> 0,
     right_sibling |-> nullptr, left_sibling |-> nullptr,
     keys |-> [i \in 1..leaf_slotmax |-> Undef],
     values |-> [i \in 1..leaf_slotmax |-> Undef]]

NewInnerNode ==
    [type |-> "Inner", slotused |-> 0,
     keys |-> [i \in 1..inner_slotmax |-> Undef],
     children |-> [i \in 1..(inner_slotmax + 1) |-> nullptr]]

IsLeaf(n) == n.type = "Leaf"

\* KeyComparator is std::less<KeyType>.
KeyComparator(a, b) == a < b

(***************************************************************************)
(* Leaf node                                                               *)
(***************************************************************************)
LeafIsFull(n) == n.slotused = leaf_slotmax

\* Variant: the first slot whose key is not less than `key` (a lower bound),
\* so that an equal key goes in front of the equal keys in the leaf.
LeafFindFirstGreaterOrEqual_lower(n, key) ==
    IF n.slotused = 0 THEN 0
    ELSE LET hits == {i \in 0..(n.slotused - 1) : ~KeyComparator(At(n.keys, i), key)}
         IN IF hits = {} THEN n.slotused
            ELSE CHOOSE i \in hits : \A j \in hits : i <= j

\* Variant: the comparator's arguments swapped.
LeafFindFirstGreaterOrEqual_swapped(n, key) ==
    IF n.slotused = 0 THEN 0
    ELSE LET hits == {i \in 0..(n.slotused - 1) : KeyComparator(At(n.keys, i), key)}
         IN IF hits = {} THEN n.slotused
            ELSE CHOOSE i \in hits : \A j \in hits : i <= j

LeafFindFirstGreaterOrEqual(n, key) ==
    IF n.slotused = 0 THEN 0
    ELSE LET hits == {i \in 0..(n.slotused - 1) : KeyComparator(key, At(n.keys, i))}
         IN IF hits = {} THEN n.slotused
            ELSE CHOOSE i \in hits : \A j \in hits : i <= j

\* std::copy_backward(a + position, a + slotused, a + slotused + 1); a[position] = x
ShiftInsert(a, position, slotused, x) ==
    [j \in DOMAIN a |->
        IF j - 1 < position THEN a[j]
        ELSE IF j - 1 = position THEN x
        ELSE IF j - 1 <= slotused THEN a[j - 1]
        ELSE a[j]]

\* Variant: a key that is already in the slot to the left has its value
\* replaced instead of a new pair being added.
LeafInsertAt_upsert(h, id, position, key, value) ==
    LET n == h[id] IN
    IF position > n.slotused THEN [heap |-> h, err |-> "InvalidPosition"]
    ELSE IF LeafIsFull(n) THEN [heap |-> h, err |-> "Capacity"]
    ELSE IF position > 0 /\ At(n.keys, position - 1) = key
    THEN [heap |-> [h EXCEPT ![id].values = Put(n.values, position - 1, value)],
          err |-> "none"]
    ELSE [heap |-> [h EXCEPT ![id] =
                       [n EXCEPT !.keys = ShiftInsert(n.keys, position, n.slotused, key),
                                 !.values = ShiftInsert(n.values, position, n.slotused, value),
                                 !.slotused = n.slotused + 1]],
          err |-> "none"]

LeafInsertAt(h, id, position, key, value) ==
    LET n == h[id] IN
    IF position > n.slotused THEN [heap |-> h, err |-> "InvalidPosition"]
    ELSE IF LeafIsFull(n) THEN [heap |-> h, err |-> "Capacity"]
    ELSE [heap |-> [h EXCEPT ![id] =
                       [n EXCEPT !.keys = ShiftInsert(n.keys, position, n.slotused, key),
                                 !.values = ShiftInsert(n.values, position, n.slotused, value),
                                 !.slotused = n.slotused + 1]],
          err |-> "none"]

\* std::copy(src + from, src + to, dst)
CopyInto(dst, src, from, to) ==
    [j \in DOMAIN dst |-> IF j - 1 < to - from THEN src[from + j] ELSE dst[j]]

NoSplit(h, e) == [heap |-> h, new |-> nullptr, key |-> 0, err |-> e]

RECURSIVE LeafInsert(_, _, _, _)
\* Variant: a leaf is split as soon as it has a single free slot left.
LeafInsert_eager(h, id, key, value) ==
    LET this == h[id] IN
    IF this.slotused + 1 >= leaf_slotmax
    THEN LET new_id == Len(h) + 1
             mid == this.slotused \div 2
             new_right_sibling ==
                 [NewLeafNode EXCEPT
                    !.keys = CopyInto(NewLeafNode.keys, this.keys, mid, this.slotused),
                    !.values = CopyInto(NewLeafNode.values, this.values, mid, this.slotused),
                    !.slotused = this.slotused - mid]
             h1 == Append([h EXCEPT ![id].slotused = mid], new_right_sibling)
             split_key == At(new_right_sibling.keys, 0)
             r == IF KeyComparator(key, split_key)
                  THEN LeafInsert(h1, id, key, value)
                  ELSE LeafInsert(h1, new_id, key, value)
             h2 == r.heap
             old_right == h2[id].right_sibling
             h3 == IF old_right # nullptr
                   THEN [h2 EXCEPT ![old_right].left_sibling = new_id,
                                   ![new_id].right_sibling = old_right]
                   ELSE h2
             h4 == [h3 EXCEPT ![id].right_sibling = new_id,
                              ![new_id].left_sibling = id]
         IN IF r.err # "none" THEN NoSplit(h2, r.err)
            ELSE [heap |-> h4, new |-> new_id, key |-> split_key, err |-> "none"]
    ELSE LET position == LeafFindFirstGreaterOrEqual(this, key)
             w == LeafInsertAt(h, id, position, key, value)
         IN NoSplit(w.heap, w.err)

\* Variant: the old right neighbour keeps pointing back at the split leaf.
LeafInsert_noback(h, id, key, value) ==
    LET this == h[id] IN
    IF LeafIsFull(this)
    THEN LET new_id == Len(h) + 1
             mid == this.slotused \div 2
             new_right_sibling ==
                 [NewLeafNode EXCEPT
                    !.keys = CopyInto(NewLeafNode.keys, this.keys, mid, this.slotused),
                    !.values = CopyInto(NewLeafNode.values, this.values, mid, this.slotused),
                    !.slotused = this.slotused - mid]
             h1 == Append([h EXCEPT ![id].slotused = mid], new_right_sibling)
             split_key == At(new_right_sibling.keys, 0)
             r == IF KeyComparator(key, split_key)
                  THEN LeafInsert(h1, id, key, value)
                  ELSE LeafInsert(h1, new_id, key, value)
             h2 == r.heap
             old_right == h2[id].right_sibling
             h3 == IF old_right # nullptr
                   THEN [h2 EXCEPT ![new_id].right_sibling = old_right]
                   ELSE h2
             h4 == [h3 EXCEPT ![id].right_sibling = new_id,
                              ![new_id].left_sibling = id]
         IN IF r.err # "none" THEN NoSplit(h2, r.err)
            ELSE [heap |-> h4, new |-> new_id, key |-> split_key, err |-> "none"]
    ELSE LET position == LeafFindFirstGreaterOrEqual(this, key)
             w == LeafInsertAt(h, id, position, key, value)
         IN NoSplit(w.heap, w.err)

\* Variant: the key handed to the parent is the last key that stays in the
\* split leaf.
LeafInsert_leftkey(h, id, key, value) ==
    LET this == h[id] IN
    IF LeafIsFull(this)
    THEN LET new_id == Len(h) + 1
             mid == this.slotused \div 2
             new_right_sibling ==
                 [NewLeafNode EXCEPT
                    !.keys = CopyInto(NewLeafNode.keys, this.keys, mid, this.slotused),
                    !.values = CopyInto(NewLeafNode.values, this.values, mid, this.slotused),
                    !.slotused = this.slotused - mid]
             h1 == Append([h EXCEPT ![id].slotused = mid], new_right_sibling)
             split_key == At(this.keys, mid - 1)
             r == IF KeyComparator(key, split_key)
                  THEN LeafInsert(h1, id, key, value)
                  ELSE LeafInsert(h1, new_id, key, value)
             h2 == r.heap
             old_right == h2[id].right_sibling
             h3 == IF old_right # nullptr
                   THEN [h2 EXCEPT ![old_right].left_sibling = new_id,
                                   ![new_id].right_sibling = old_right]
                   ELSE h2
             h4 == [h3 EXCEPT ![id].right_sibling = new_id,
                              ![new_id].left_sibling = id]
         IN IF r.err # "none" THEN NoSplit(h2, r.err)
            ELSE [heap |-> h4, new |-> new_id, key |-> split_key, err |-> "none"]
    ELSE LET position == LeafFindFirstGreaterOrEqual(this, key)
             w == LeafInsertAt(h, id, position, key, value)
         IN NoSplit(w.heap, w.err)

\* Variant: the new leaf is not linked to the old right neighbour.
LeafInsert_unlinked(h, id, key, value) ==
    LET this == h[id] IN
    IF LeafIsFull(this)
    THEN LET new_id == Len(h) + 1
             mid == this.slotused \div 2
             new_right_sibling ==
                 [NewLeafNode EXCEPT
                    !.keys = CopyInto(NewLeafNode.keys, this.keys, mid, this.slotused),
                    !.values = CopyInto(NewLeafNode.values, this.values, mid, this.slotused),
                    !.slotused = this.slotused - mid]
             h1 == Append([h EXCEPT ![id].slotused = mid], new_right_sibling)
             split_key == At(new_right_sibling.keys, 0)
             r == IF KeyComparator(key, split_key)
                  THEN LeafInsert(h1, id, key, value)
                  ELSE LeafInsert(h1, new_id, key, value)
             h2 == r.heap
             old_right == h2[id].right_sibling
             h3 == IF old_right # nullptr
                   THEN [h2 EXCEPT ![old_right].left_sibling = new_id]
                   ELSE h2
             h4 == [h3 EXCEPT ![id].right_sibling = new_id,
                              ![new_id].left_sibling = id]
         IN IF r.err # "none" THEN NoSplit(h2, r.err)
            ELSE [heap |-> h4, new |-> new_id, key |-> split_key, err |-> "none"]
    ELSE LET position == LeafFindFirstGreaterOrEqual(this, key)
             w == LeafInsertAt(h, id, position, key, value)
         IN NoSplit(w.heap, w.err)

LeafInsert(h, id, key, value) ==
    LET this == h[id] IN
    IF LeafIsFull(this)
    THEN LET new_id == Len(h) + 1
             mid == this.slotused \div 2
             new_right_sibling ==
                 [NewLeafNode EXCEPT
                    !.keys = CopyInto(NewLeafNode.keys, this.keys, mid, this.slotused),
                    !.values = CopyInto(NewLeafNode.values, this.values, mid, this.slotused),
                    !.slotused = this.slotused - mid]
             h1 == Append([h EXCEPT ![id].slotused = mid], new_right_sibling)
             split_key == At(new_right_sibling.keys, 0)
             r == IF KeyComparator(key, split_key)
                  THEN LeafInsert(h1, id, key, value)
                  ELSE LeafInsert(h1, new_id, key, value)
             h2 == r.heap
             old_right == h2[id].right_sibling
             h3 == IF old_right # nullptr
                   THEN [h2 EXCEPT ![old_right].left_sibling = new_id,
                                   ![new_id].right_sibling = old_right]
                   ELSE h2
             h4 == [h3 EXCEPT ![id].right_sibling = new_id,
                              ![new_id].left_sibling = id]
         IN IF r.err # "none" THEN NoSplit(h2, r.err)
            ELSE [heap |-> h4, new |-> new_id, key |-> split_key, err |-> "none"]
    ELSE LET position == LeafFindFirstGreaterOrEqual(this, key)
             w == LeafInsertAt(h, id, position, key, value)
         IN NoSplit(w.heap, w.err)

(***************************************************************************)
(* Inner node                                                              *)
(***************************************************************************)
\* The source compares with leaf_slotmax here, not inner_slotmax.
InnerIsFull(n) == n.slotused = leaf_slotmax

\* Variant: the comparator's arguments swapped.
InnerFindFirstGreaterOrEqual_swapped(n, key) ==
    IF n.slotused = 0 THEN 0
    ELSE LET hits == {i \in 0..(n.slotused - 1) : KeyComparator(At(n.keys, i), key)}
         IN IF hits = {} THEN n.slotused
            ELSE CHOOSE i \in hits : \A j \in hits : i <= j

InnerFindFirstGreaterOrEqual(n, key) ==
    IF n.slotused = 0 THEN 0
    ELSE LET hits == {i \in 0..(n.slotused - 1) : KeyComparator(key, At(n.keys, i))}
         IN IF hits = {} THEN n.slotused
            ELSE CHOOSE i \in hits : \A j \in hits : i <= j

\* Variant: the slot opened for the right child is left empty.
InnerInsertAt_nochild(h, id, position, new_key, right_child) ==
    LET n == h[id] IN
    IF position > n.slotused THEN [heap |-> h, err |-> "InvalidPosition"]
    ELSE IF InnerIsFull(n) THEN [heap |-> h, err |-> "Capacity"]
    ELSE [heap |-> [h EXCEPT ![id] =
                       [n EXCEPT !.keys = ShiftInsert(n.keys, position, n.slotused, new_key),
                                 !.children = ShiftInsert(n.children, position + 1,
                                                          n.slotused + 1, nullptr),
                                 !.slotused = n.slotused + 1]],
          err |-> "none"]

InnerInsertAt(h, id, position, new_key, right_child) ==
    LET n == h[id] IN
    IF position > n.slotused THEN [heap |-> h, err |-> "InvalidPosition"]
    ELSE IF InnerIsFull(n) THEN [heap |-> h, err |-> "Capacity"]
    ELSE [heap |-> [h EXCEPT ![id] =
                       [n EXCEPT !.keys = ShiftInsert(n.keys, position, n.slotused, new_key),
                                 !.children = ShiftInsert(n.children, position + 1,
                                                          n.slotused + 1, right_child),
                                 !.slotused = n.slotused + 1]],
          err |-> "none"]

RECURSIVE NodeInsert(_, _, _, _)

\* Variant: the key to promote is read after the pending separator went in.
InnerInsert_latekey(h, id, key, value) ==
    LET child_position == InnerFindFirstGreaterOrEqual(h[id], key)
        child == At(h[id].children, child_position)
        r == NodeInsert(h, child, key, value)
        h1 == r.heap
        this == h1[id]
    IN IF r.err # "none" THEN r
       ELSE IF r.new # nullptr
       THEN IF InnerIsFull(this)
            THEN LET new_id == Len(h1) + 1
                     mid == this.slotused \div 2
                     new_right_sibling ==
                         [NewInnerNode EXCEPT
                            !.keys = CopyInto(NewInnerNode.keys, this.keys,
                                              mid + 1, this.slotused),
                            !.children = CopyInto(NewInnerNode.children, this.children,
                                                  mid + 1, this.slotused + 1),
                            !.slotused = this.slotused - mid - 1]
                     h2 == Append([h1 EXCEPT ![id].slotused = mid], new_right_sibling)
                     w == IF child_position <= mid
                          THEN InnerInsertAt(h2, id, child_position, r.key, r.new)
                          ELSE InnerInsertAt(h2, new_id, child_position - (mid + 1),
                                             r.key, r.new)
                     split_key == At(w.heap[id].keys, mid)
                 IN IF w.err # "none" THEN NoSplit(w.heap, w.err)
                    ELSE [heap |-> w.heap, new |-> new_id, key |-> split_key,
                          err |-> "none"]
            ELSE LET w == InnerInsertAt(h1, id, child_position, r.key, r.new)
                 IN NoSplit(w.heap, w.err)
       ELSE r

\* Variant: a full inner node hands its child's split to its own parent
\* instead of splitting itself.
InnerInsert_nosplit(h, id, key, value) ==
    LET child_position == InnerFindFirstGreaterOrEqual(h[id], key)
        child == At(h[id].children, child_position)
        r == NodeInsert(h, child, key, value)
        h1 == r.heap
        this == h1[id]
    IN IF r.err # "none" THEN r
       ELSE IF r.new # nullptr
       THEN IF InnerIsFull(this)
            THEN r
            ELSE LET w == InnerInsertAt(h1, id, child_position, r.key, r.new)
                 IN NoSplit(w.heap, w.err)
       ELSE r

\* Variant: the position in the new node is computed with offset mid.
InnerInsert_offset(h, id, key, value) ==
    LET child_position == InnerFindFirstGreaterOrEqual(h[id], key)
        child == At(h[id].children, child_position)
        r == NodeInsert(h, child, key, value)
        h1 == r.heap
        this == h1[id]
    IN IF r.err # "none" THEN r
       ELSE IF r.new # nullptr
       THEN IF InnerIsFull(this)
            THEN LET new_id == Len(h1) + 1
                     mid == this.slotused \div 2
                     new_right_sibling ==
                         [NewInnerNode EXCEPT
                            !.keys = CopyInto(NewInnerNode.keys, this.keys,
                                              mid + 1, this.slotused),
                            !.children = CopyInto(NewInnerNode.children, this.children,
                                                  mid + 1, this.slotused + 1),
                            !.slotused = this.slotused - mid - 1]
                     h2 == Append([h1 EXCEPT ![id].slotused = mid], new_right_sibling)
                     split_key == At(h2[id].keys, mid)
                     w == IF child_position <= mid
                          THEN InnerInsertAt(h2, id, child_position, r.key, r.new)
                          ELSE InnerInsertAt(h2, new_id, child_position - mid,
                                             r.key, r.new)
                 IN IF w.err # "none" THEN NoSplit(w.heap, w.err)
                    ELSE [heap |-> w.heap, new |-> new_id, key |-> split_key,
                          err |-> "none"]
            ELSE LET w == InnerInsertAt(h1, id, child_position, r.key, r.new)
                 IN NoSplit(w.heap, w.err)
       ELSE r

InnerInsert(h, id, key, value) ==
    LET child_position == InnerFindFirstGreaterOrEqual(h[id], key)
        child == At(h[id].children, child_position)
        r == NodeInsert(h, child, key, value)
        h1 == r.heap
        this == h1[id]
    IN IF r.err # "none" THEN r
       ELSE IF r.new # nullptr
       THEN IF InnerIsFull(this)
            THEN LET new_id == Len(h1) + 1
                     mid == this.slotused \div 2
                     new_right_sibling ==
                         [NewInnerNode EXCEPT
                            !.keys = CopyInto(NewInnerNode.keys, this.keys,
                                              mid + 1, this.slotused),
                            !.children = CopyInto(NewInnerNode.children, this.children,
                                                  mid + 1, this.slotused + 1),
                            !.slotused = this.slotused - mid - 1]
                     h2 == Append([h1 EXCEPT ![id].slotused = mid], new_right_sibling)
                     split_key == At(h2[id].keys, mid)
                     w == IF child_position <= mid
                          THEN InnerInsertAt(h2, id, child_position, r.key, r.new)
                          ELSE InnerInsertAt(h2, new_id, child_position - (mid + 1),
                                             r.key, r.new)
                 IN IF w.err # "none" THEN NoSplit(w.heap, w.err)
                    ELSE [heap |-> w.heap, new |-> new_id, key |-> split_key,
                          err |-> "none"]
            ELSE LET w == InnerInsertAt(h1, id, child_position, r.key, r.new)
                 IN NoSplit(w.heap, w.err)
       ELSE r

\* Virtual dispatch of node::Insert.
NodeInsert(h, id, key, value) ==
    IF IsLeaf(h[id]) THEN LeafInsert(h, id, key, value)
    ELSE InnerInsert(h, id, key, value)

\* Variant: the split point is the first slot, the new leaf takes every pair.
LeafSplitMove_all(h, id) ==
    LET this == h[id]
        mid == 0
        new_right_sibling ==
            [NewLeafNode EXCEPT
               !.keys = CopyInto(NewLeafNode.keys, this.keys, mid, this.slotused),
               !.values = CopyInto(NewLeafNode.values, this.values, mid, this.slotused),
               !.slotused = this.slotused - mid]
    IN Append([h EXCEPT ![id].slotused = mid], new_right_sibling)

\* The first half of LeafNode::Insert on a full leaf: the heap at the moment
\* the pairs from mid on stand in the new right sibling and the incoming
\* pair has not been placed yet.
LeafSplitMove(h, id) ==
    LET this == h[id]
        mid == this.slotused \div 2
        new_right_sibling ==
            [NewLeafNode EXCEPT
               !.keys = CopyInto(NewLeafNode.keys, this.keys, mid, this.slotused),
               !.values = CopyInto(NewLeafNode.values, this.values, mid, this.slotused),
               !.slotused = this.slotused - mid]
    IN Append([h EXCEPT ![id].slotused = mid], new_right_sibling)

\* The half the incoming pair is re-inserted into: the split leaf if
\* key < split_key, the new leaf otherwise.
LeafSplitTarget(h, id, key) ==
    LET h1 == LeafSplitMove(h, id)
        new_id == Len(h1)
        split_key == At(h1[new_id].keys, 0)
    IN IF KeyComparator(key, split_key) THEN id ELSE new_id

\* The nodes on which Insert(key, ...) is called in turn, from id down to a
\* leaf: each inner node hands the call to children[FindFirstGreaterOrEqual(key)].
RECURSIVE DescentPath(_, _, _)
DescentPath(h, id, key) ==
    IF IsLeaf(h[id]) THEN <<id>>
    ELSE <<id>> \o DescentPath(h, At(h[id].children,
                                      InnerFindFirstGreaterOrEqual(h[id], key)), key)

\* The leaf reached by the descent.
DescentLeaf(h, id, key) ==
    LET path == DescentPath(h, id, key) IN path[Len(path)]

(***************************************************************************)
(* Tree object                                                             *)
(***************************************************************************)
\* Variant: the two children of the new root are stored in the wrong order.
TreeInsert_swapped(h, rt, key, value, unique_key) ==
    LET h0 == IF rt = nullptr THEN Append(h, NewLeafNode) ELSE h
        root0 == IF rt = nullptr THEN Len(h0) ELSE rt
        r == NodeInsert(h0, root0, key, value)
        new_child == r.new
        new_key == r.key
        new_root == [NewInnerNode EXCEPT
                        !.keys = Put(NewInnerNode.keys, 0, new_key),
                        !.children = Put(Put(NewInnerNode.children, 0, new_child),
                                         1, root0),
                        !.slotused = 1]
    IN IF r.err # "none" THEN [heap |-> r.heap, root |-> root0, err |-> r.err]
       ELSE IF new_child # nullptr
       THEN [heap |-> Append(r.heap, new_root), root |-> Len(r.heap) + 1, err |-> "none"]
       ELSE [heap |-> r.heap, root |-> root0, err |-> "none"]

\* Variant: the test for a split of the root is inverted.
TreeInsert_inverted(h, rt, key, value, unique_key) ==
    LET h0 == IF rt = nullptr THEN Append(h, NewLeafNode) ELSE h
        root0 == IF rt = nullptr THEN Len(h0) ELSE rt
        r == NodeInsert(h0, root0, key, value)
        new_child == r.new
        new_key == r.key
        new_root == [NewInnerNode EXCEPT
                        !.keys = Put(NewInnerNode.keys, 0, new_key),
                        !.children = Put(Put(NewInnerNode.children, 0, root0),
                                         1, new_child),
                        !.slotused = 1]
    IN IF r.err # "none" THEN [heap |-> r.heap, root |-> root0, err |-> r.err]
       ELSE IF new_child = nullptr
       THEN [heap |-> Append(r.heap, new_root), root |-> Len(r.heap) + 1, err |-> "none"]
       ELSE [heap |-> r.heap, root |-> root0, err |-> "none"]

\* Variant: unique_key is honoured, a key that is present is not inserted
\* again.
TreeInsert_unique(h, rt, key, value, unique_key) ==
    LET h0 == IF rt = nullptr THEN Append(h, NewLeafNode) ELSE h
        root0 == IF rt = nullptr THEN Len(h0) ELSE rt
        present == \E id \in 1..Len(h) :
                      /\ IsLeaf(h[id])
                      /\ \E i \in 0..(h[id].slotused - 1) : At(h[id].keys, i) = key
        r == NodeInsert(h0, root0, key, value)
        new_child == r.new
        new_key == r.key
        new_root == [NewInnerNode EXCEPT
                        !.keys = Put(NewInnerNode.keys, 0, new_key),
                        !.children = Put(Put(NewInnerNode.children, 0, root0),
                                         1, new_child),
                        !.slotused = 1]
    IN IF unique_key /\ present THEN [heap |-> h, root |-> rt, err |-> "none"]
       ELSE IF r.err # "none" THEN [heap |-> r.heap, root |-> root0, err |-> r.err]
       ELSE IF new_child # nullptr
       THEN [heap |-> Append(r.heap, new_root), root |-> Len(r.heap) + 1, err |-> "none"]
       ELSE [heap |-> r.heap, root |-> root0, err |-> "none"]

\* BPlusTree::Insert.  unique_key is accepted and never read.
TreeInsert(h, rt, key, value, unique_key) ==
    LET h0 == IF rt = nullptr THEN Append(h, NewLeafNode) ELSE h
        root0 == IF rt = nullptr THEN Len(h0) ELSE rt
        r == NodeInsert(h0, root0, key, value)
        new_child == r.new
        new_key == r.key
        new_root == [NewInnerNode EXCEPT
                        !.keys = Put(NewInnerNode.keys, 0, new_key),
                        !.children = Put(Put(NewInnerNode.children, 0, root0),
                                         1, new_child),
                        !.slotused = 1]
    IN IF r.err # "none" THEN [heap |-> r.heap, root |-> root0, err |-> r.err]
       ELSE IF new_child # nullptr
       THEN [heap |-> Append(r.heap, new_root), root |-> Len(r.heap) + 1, err |-> "none"]
       ELSE [heap |-> r.heap, root |-> root0, err |-> "none"]

RECURSIVE FirstLeafFrom(_, _)
FirstLeafFrom(h, id) ==
    IF IsLeaf(h[id]) THEN id ELSE FirstLeafFrom(h, At(h[id].children, 0))

GetFirstLeaf(h, rt) == IF rt = nullptr THEN nullptr ELSE FirstLeafFrom(h, rt)

(***************************************************************************)
(* Integrity checker.  A bound is a pointer to a key: <<>> is the null     *)
(* pointer, <<k>> points to k.  The result is "ok" or the exception.       *)
(***************************************************************************)
KeysSorted(n) ==
    \A i \in 1..(n.slotused - 1) : ~KeyComparator(At(n.keys, i), At(n.keys, i - 1))

LowerOk(n, lower_bound) ==
    lower_bound = <<>> \/ ~KeyComparator(At(n.keys, 0), lower_bound[1])

UpperOk(n, upper_bound) ==
    upper_bound = <<>> \/ ~KeyComparator(upper_bound[1], At(n.keys, n.slotused - 1))

LeafCheckIntegrity(n, lower_bound, upper_bound) ==
    IF ~KeysSorted(n) THEN "LeafNode integrity check failed"
    ELSE IF n.slotused = 0 THEN "read before the keys array"
    ELSE IF ~LowerOk(n, lower_bound) THEN "LeafNode integrity check failed"
    ELSE IF ~UpperOk(n, upper_bound) THEN "LeafNode integrity check failed"
    ELSE "ok"

RECURSIVE NodeCheckIntegrity(_, _, _, _)

InnerCheckIntegrity(h, id, lower_bound, upper_bound) ==
    LET n == h[id]
        ChildLower(i) == IF i = 0 THEN lower_bound ELSE <<At(n.keys, i - 1)>>
        ChildUpper(i) == IF i = n.slotused THEN upper_bound ELSE <<At(n.keys, i)>>
        \* children[0], children[slotused], then children[1 .. slotused - 1]
        order == <<0, n.slotused>> \o [j \in 1..(n.slotused - 1) |-> j]
        res == [j \in 1..Len(order) |->
                   NodeCheckIntegrity(h, At(n.children, order[j]),
                                      ChildLower(order[j]), ChildUpper(order[j]))]
        bad == {j \in 1..Len(order) : res[j] # "ok"}
    IN IF \E i \in 0..n.slotused : At(n.children, i) = nullptr
       THEN "Child node is nullptr"
       ELSE IF ~KeysSorted(n) THEN "InnerNode integrity check failed"
       ELSE IF n.slotused = 0 THEN "read before the keys array"
       ELSE IF ~LowerOk(n, lower_bound) THEN "InnerNode integrity check failed"
       ELSE IF ~UpperOk(n, upper_bound) THEN "InnerNode integrity check failed"
       ELSE IF bad = {} THEN "ok"
       ELSE res[CHOOSE j \in bad : \A k \in bad : j <= k]

NodeCheckIntegrity(h, id, lower_bound, upper_bound) ==
    IF IsLeaf(h[id]) THEN LeafCheckIntegrity(h[id], lower_bound, upper_bound)
    ELSE InnerCheckIntegrity(h, id, lower_bound, upper_bound)

CheckIntegrity(h, rt) ==
    IF rt = nullptr THEN "ok" ELSE NodeCheckIntegrity(h, rt, <<>>, <<>>)

(***************************************************************************)
(* Forward iterator.  An iterator is [current_leaf, current_slot, kv].     *)
(***************************************************************************)
KeyValue(key, value) == [key |-> key, value |-> value]

\* ForwardIterator(LeafNode *leaf, uint16_t slot = 0)
IteratorAt(leaf, slot) ==
    [current_leaf |-> leaf, current_slot |-> slot, kv |-> KeyValue(0, 0)]

\* ForwardIterator(BPlusTree *tree, const KeyType &start_key)
IteratorFromKey(h, rt, start_key) ==
    [current_leaf |-> nullptr, current_slot |-> 0, kv |-> KeyValue(0, 0)]

Begin(h, rt) == IteratorAt(GetFirstLeaf(h, rt), 0)

BeginKey(h, rt, start_key) == IteratorFromKey(h, rt, start_key)

\* Variant: the last pair of the last leaf already counts as the end.
IsEnd_early(h, i) ==
    IF i.current_leaf = nullptr THEN TRUE
    ELSE IF h[i.current_leaf].right_sibling = nullptr
            /\ i.current_slot + 1 >= h[i.current_leaf].slotused THEN TRUE
    ELSE FALSE

IsEnd(h, i) ==
    IF i.current_leaf = nullptr THEN TRUE
    ELSE IF h[i.current_leaf].right_sibling = nullptr
            /\ i.current_slot >= h[i.current_leaf].slotused THEN TRUE
    ELSE FALSE

\* Variant: at the end the cached pair is handed out again, without an error.
Dereference_silent(h, i) ==
    IF IsEnd(h, i) THEN [it |-> i, err |-> "none"]
    ELSE [it |-> [i EXCEPT !.kv = KeyValue(At(h[i.current_leaf].keys, i.current_slot),
                                          At(h[i.current_leaf].values, i.current_slot))],
          err |-> "none"]

\* operator->: the iterator after the call and the exception raised.
Dereference(h, i) ==
    IF IsEnd(h, i) THEN [it |-> i, err |-> "EndOfSequence"]
    ELSE [it |-> [i EXCEPT !.kv = KeyValue(At(h[i.current_leaf].keys, i.current_slot),
                                          At(h[i.current_leaf].values, i.current_slot))],
          err |-> "none"]

\* Variant: the slot is not reset when the iterator moves to the next leaf.
Advance_noreset(h, i) ==
    IF IsEnd(h, i) THEN [it |-> i, ret |-> i, err |-> "EndOfSequence"]
    ELSE LET moved == IF i.current_slot + 1 < h[i.current_leaf].slotused
                      THEN [i EXCEPT !.current_slot = i.current_slot + 1]
                      ELSE [i EXCEPT !.current_leaf = h[i.current_leaf].right_sibling]
         IN [it |-> moved, ret |-> moved, err |-> "none"]

\* Postfix operator++: the iterator after the call, the returned copy and
\* the exception raised.
Advance(h, i) ==
    IF IsEnd(h, i) THEN [it |-> i, ret |-> i, err |-> "EndOfSequence"]
    ELSE LET moved == IF i.current_slot + 1 < h[i.current_leaf].slotused
                      THEN [i EXCEPT !.current_slot = i.current_slot + 1]
                      ELSE [i EXCEPT !.current_leaf = h[i.current_leaf].right_sibling,
                                     !.current_slot = 0]
         IN [it |-> moved, ret |-> moved, err |-> "none"]

(***************************************************************************)
(* State                                                                   *)
(***************************************************************************)
VARIABLES
    nodes,       \* the heap: nodes[a] is the node at address a
    root,        \* BPlusTree::root
    it,          \* the client's ForwardIterator
    it_live,     \* whether the client has constructed an iterator
    last_error,  \* the exception raised by the last public operation, or "none"
    inserted,    \* history: the (key, value) pairs passed to Insert, in call order
    it_from,     \* history: <<>> if `it` came from Begin(), <<q>> if from Begin(q)
    scan,        \* history: progress of the dereference-then-advance loop on `it`
    yielded,     \* history: the pairs that loop has dereferenced so far
    unread,      \* history: `it` was not dereferenced since Begin or its last move
    trail        \* history: the pair `it` yielded at each position it stood on,
                 \* whatever Insert calls came in between

vars == <<nodes, root, it, it_live, last_error, inserted, it_from, scan, yielded,
          unread, trail>>

tree_vars == <<nodes, root, inserted>>

Init ==
    /\ nodes = <<>>
    /\ root = nullptr
    /\ it = IteratorAt(nullptr, 0)
    /\ it_live = FALSE
    /\ last_error = "none"
    /\ inserted = <<>>
    /\ it_from = <<>>
    /\ scan = "none"
    /\ yielded = <<>>
    /\ unread = FALSE
    /\ trail = <<>>

(***************************************************************************)
(* Actions: one per public operation.                                      *)
(*                                                                         *)
(* scan follows the client loop `while (!it.IsEnd()) { read it->; it++; }`:*)
(* "fresh" = the pair under the iterator has not been read yet, "read" =   *)
(* it has, "broken" = the client advanced past an unread pair or inserted  *)
(* while the loop was running, so `yielded` is no longer the scan of one   *)
(* tree and is dropped.                                                    *)
(***************************************************************************)
\* tree->Insert(key, value, unique_key)
Insert(key, value, unique_key) ==
    /\ Len(inserted) < MaxInserts
    /\ it_live => Len(inserted) < MaxLoose
    /\ LET r == TreeInsert(nodes, root, key, value, unique_key)
       IN /\ nodes' = r.heap
          /\ root' = r.root
          /\ last_error' = r.err
    /\ inserted' = Append(inserted, <<key, value>>)
    /\ scan' = IF scan = "none" THEN "none" ELSE "broken"
    /\ yielded' = <<>>
    /\ UNCHANGED <<it, it_live, it_from, unread, trail>>

\* it = tree->Begin()
DoBegin ==
    /\ it' = Begin(nodes, root)
    /\ it_live' = TRUE
    /\ last_error' = "none"
    /\ it_from' = <<>>
    /\ scan' = "fresh"
    /\ yielded' = <<>>
    /\ unread' = TRUE
    /\ trail' = <<>>
    /\ UNCHANGED tree_vars

\* it = tree->Begin(start_key)
DoBeginKey(start_key) ==
    /\ it' = BeginKey(nodes, root, start_key)
    /\ it_live' = TRUE
    /\ last_error' = "none"
    /\ it_from' = <<start_key>>
    /\ scan' = "fresh"
    /\ yielded' = <<>>
    /\ unread' = TRUE
    /\ trail' = <<>>
    /\ UNCHANGED tree_vars

\* it->key, it->value
DoDereference ==
    /\ it_live
    /\ LET r == Dereference(nodes, it)
       IN /\ it' = r.it
          /\ last_error' = r.err
          /\ IF r.err = "none" /\ scan = "fresh"
             THEN /\ scan' = "read"
                  /\ yielded' = Append(yielded, <<r.it.kv.key, r.it.kv.value>>)
             ELSE UNCHANGED <<scan, yielded>>
          /\ IF r.err = "none" /\ unread
             THEN /\ unread' = FALSE
                  /\ trail' = Append(trail, <<r.it.kv.key, r.it.kv.value>>)
             ELSE UNCHANGED <<unread, trail>>
    /\ UNCHANGED <<tree_vars, it_live, it_from>>

\* it++
DoAdvance ==
    /\ it_live
    /\ scan = "read" \/ IsEnd(nodes, it) \/ Len(inserted) < MaxLoose
    /\ LET r == Advance(nodes, it)
       IN /\ it' = r.it
          /\ last_error' = r.err
          /\ IF r.err # "none" THEN UNCHANGED <<scan, yielded>>
             ELSE IF scan = "read" THEN scan' = "fresh" /\ UNCHANGED yielded
             ELSE scan' = "broken" /\ yielded' = <<>>
          /\ unread' = (unread \/ r.err = "none")
    /\ UNCHANGED <<tree_vars, it_live, it_from, trail>>

\* The client passes a value it has not used before (the repository's test
\* inserts (i, i)), so that every pair of a scan can be told from the others.
\* Insert copies values and never reads them.
NextValue == Len(inserted) + 1

Next ==
    \/ \E key \in Keys, unique_key \in BOOLEAN : Insert(key, NextValue, unique_key)
    \/ DoBegin
    \/ \E start_key \in 1..(MaxKey + 1) : DoBeginKey(start_key)
    \/ DoDereference
    \/ DoAdvance

Spec == Init /\ [][Next]_vars

(***************************************************************************)
(* Observation of a state: what the properties below talk about            *)
(***************************************************************************)
Min(a, b) == IF a < b THEN a ELSE b

\* The pairs in the valid slots of a leaf, in slot order.
LeafPairs(n) == [i \in 1..n.slotused |-> <<n.keys[i], n.values[i]>>]

ValidKeys(n) == {At(n.keys, i) : i \in 0..(n.slotused - 1)}

ChildIds(n) == {At(n.children, i) : i \in 0..n.slotused}

RECURSIVE SubtreeKeys(_, _)
SubtreeKeys(h, id) ==
    IF id = nullptr THEN {}
    ELSE IF IsLeaf(h[id]) THEN ValidKeys(h[id])
    ELSE UNION {SubtreeKeys(h, c) : c \in ChildIds(h[id])}

\* The depths at which the subtree of id has a leaf (a null child counts as
\* a missing leaf at depth -1).
RECURSIVE LeafDepths(_, _, _)
LeafDepths(h, id, d) ==
    IF id = nullptr THEN {-1}
    ELSE IF IsLeaf(h[id]) THEN {d}
    ELSE UNION {LeafDepths(h, c, d + 1) : c \in ChildIds(h[id])}

\* The leaves of the subtree of id, left to right.
RECURSIVE LeavesInOrder(_, _)
RECURSIVE LeavesOfChildren(_, _, _)
LeavesInOrder(h, id) ==
    IF id = nullptr THEN <<>>
    ELSE IF IsLeaf(h[id]) THEN <<id>>
    ELSE LeavesOfChildren(h, id, 0)
LeavesOfChildren(h, id, i) ==
    IF i > h[id].slotused THEN <<>>
    ELSE LeavesInOrder(h, At(h[id].children, i)) \o LeavesOfChildren(h, id, i + 1)

\* The leaves met from `leaf` along right_sibling; the walk gives up after
\* `fuel` leaves, so a chain that runs into a cycle comes out too long.
RECURSIVE Chain(_, _, _)
Chain(h, leaf, fuel) ==
    IF leaf = nullptr \/ fuel = 0 THEN <<>>
    ELSE <<leaf>> \o Chain(h, h[leaf].right_sibling, fuel - 1)

RECURSIVE Flatten(_, _)
Flatten(h, leaves) ==
    IF leaves = <<>> THEN <<>>
    ELSE LeafPairs(h[Head(leaves)]) \o Flatten(h, Tail(leaves))

InnerIds == {a \in 1..Len(nodes) : ~IsLeaf(nodes[a])}

\* Number of levels: 0 for the empty tree, 1 for a root that is a leaf.
RECURSIVE HeightFrom(_, _)
HeightFrom(h, id) ==
    IF id = nullptr THEN 0
    ELSE IF IsLeaf(h[id]) THEN 1
    ELSE 1 + HeightFrom(h, At(h[id].children, 0))

Height == HeightFrom(nodes, root)

NonDecreasing(pairs) ==
    \A i \in 1..(Len(pairs) - 1) : pairs[i][1] <= pairs[i + 1][1]

Count(pairs, p) == Cardinality({i \in 1..Len(pairs) : pairs[i] = p})

Range(pairs) == {pairs[i] : i \in 1..Len(pairs)}

SameMultiset(a, b) ==
    \A p \in Range(a) \cup Range(b) : Count(a, p) = Count(b, p)

KeyCount(pairs, k) == Cardinality({i \in 1..Len(pairs) : pairs[i][1] = k})

\* `it` is as Begin() / Begin(q) returned it: nothing was read, advanced or
\* inserted since.
JustBegun == it_live /\ scan = "fresh" /\ yielded = <<>>

\* The read-then-advance loop on `it` ran on an unchanged tree until IsEnd().
ScanDone == it_live /\ scan = "fresh" /\ IsEnd(nodes, it)

\* The tree has three levels and its first inner split has just happened.
\* SplitKept: the pending separator went into the node that was split
\* (child_position <= mid); SplitMoved: it went into the new right node.
SplitKept ==
    /\ Height = 3
    /\ nodes[root].slotused = 1
    /\ nodes[At(nodes[root].children, 0)].slotused
          = nodes[At(nodes[root].children, 1)].slotused + 1

SplitMoved ==
    /\ Height = 3
    /\ nodes[root].slotused = 1
    /\ nodes[At(nodes[root].children, 1)].slotused
          = nodes[At(nodes[root].children, 0)].slotused + 1

\* Some key was inserted more often than a leaf has slots.
HasHeavyKey == \E k \in Keys : KeyCount(inserted, k) > leaf_slotmax

(***************************************************************************)
(* Properties                                                              *)
(***************************************************************************)

\* C1 (sorted scan): when the read-then-advance loop on an iterator from
\* Begin() has run to IsEnd() on an unchanged tree, the pairs it read are
\* exactly the multiset of pairs inserted so far, in non-decreasing key
\* order, and there are as many of them as there were inserts.
C1_SortedScan ==
    (ScanDone /\ it_from = <<>>) =>
        /\ Len(yielded) = Len(inserted)
        /\ SameMultiset(yielded, inserted)
        /\ NonDecreasing(yielded)

\* A finished scan of a three-level tree that was filled out of key order,
\* with a repeated key.
C1_Witness ==
    /\ ScanDone /\ it_from = <<>>
    /\ Len(yielded) = Len(inserted)
    /\ SplitKept
    /\ ~NonDecreasing(inserted)
    /\ \E k \in Keys : KeyCount(inserted, k) >= 2

\* C2 (range start): an iterator from Begin(q) is at-end immediately iff no
\* inserted key is >= q, and the loop run to IsEnd() on it reads exactly the
\* inserted pairs with key >= q, in non-decreasing key order.
C2_RangeStart ==
    \A q \in 1..(MaxKey + 1) :
        (it_live /\ it_from = <<q>>) =>
            LET AtLeast(p) == p[1] >= q
                wanted == SelectSeq(inserted, AtLeast)
            IN /\ JustBegun => (IsEnd(nodes, it) <=> wanted = <<>>)
               /\ ScanDone => /\ SameMultiset(yielded, wanted)
                              /\ NonDecreasing(yielded)

\* C3 (integrity): in every state CheckIntegrity() returns without raising:
\* keys sorted in every node, no null child in children[0..slotused], first
\* and last key of every node within the bounds handed down.
C3_CheckIntegrity == CheckIntegrity(nodes, root) = "ok"

\* CheckIntegrity() passes on a three-level tree that holds a repeated key
\* and whose inner split kept the pending separator in the split node.
C3_Witness ==
    /\ SplitKept
    /\ \E k \in Keys : KeyCount(inserted, k) >= 2
    /\ CheckIntegrity(nodes, root) = "ok"

\* C4 as stated (strict separators): in every inner node every key in the
\* subtree of child i (i < n) is strictly less than s_i and every key in the
\* subtree of child i (i >= 1) is >= s_(i-1).
C4_StrictSeparators ==
    \A a \in InnerIds :
        LET n == nodes[a] IN
        /\ \A i \in 0..(n.slotused - 1) :
              \A k \in SubtreeKeys(nodes, At(n.children, i)) : k < At(n.keys, i)
        /\ \A i \in 1..n.slotused :
              \A k \in SubtreeKeys(nodes, At(n.children, i)) : k >= At(n.keys, i - 1)

\* C4 as amended (separators): in every inner node every key in the subtree
\* of child i (i < n) is less than or equal to s_i and every key in the
\* subtree of child i (i >= 1) is >= s_(i-1).
C4_Separators ==
    \A a \in InnerIds :
        LET n == nodes[a] IN
        /\ \A i \in 0..(n.slotused - 1) :
              \A k \in SubtreeKeys(nodes, At(n.children, i)) : k <= At(n.keys, i)
        /\ \A i \in 1..n.slotused :
              \A k \in SubtreeKeys(nodes, At(n.children, i)) : k >= At(n.keys, i - 1)

\* A three-level tree in which a child to the left of a separator holds a
\* key equal to that separator.
C4_Witness ==
    /\ Height = 3
    /\ \E a \in InnerIds : \E i \in 0..(nodes[a].slotused - 1) :
          At(nodes[a].keys, i) \in SubtreeKeys(nodes, At(nodes[a].children, i))

\* C5 (balance): all leaves are at the same depth from the root.
C5_Balance ==
    root # nullptr => Cardinality(LeafDepths(nodes, root, 0)) = 1

\* A three-level tree: leaf splits, an inner split and two root growths
\* have happened.
C5_Witness ==
    /\ SplitMoved
    /\ Len(LeavesInOrder(nodes, root)) >= 5
    /\ LeafDepths(nodes, root, 0) = {2}

\* C6 (leaf chain): following right_sibling from the leftmost leaf visits
\* every leaf exactly once, in left-to-right tree order, sees the keys in
\* non-decreasing order and stops at a leaf whose right_sibling is null.
C6_LeafChain ==
    LET chain == Chain(nodes, GetFirstLeaf(nodes, root), Len(nodes) + 1)
    IN /\ chain = LeavesInOrder(nodes, root)
       /\ \A a \in 1..Len(nodes) :
             IsLeaf(nodes[a]) => Cardinality({i \in 1..Len(chain) : chain[i] = a}) = 1
       /\ NonDecreasing(Flatten(nodes, chain))
       /\ chain # <<>> => nodes[chain[Len(chain)]].right_sibling = nullptr

\* A three-level tree one of whose leaves was split while it had a right
\* neighbour (the new leaf has a higher address than its right sibling).
C6_Witness ==
    /\ Height = 3
    /\ \E a \in 1..Len(nodes) :
          /\ IsLeaf(nodes[a])
          /\ nodes[a].right_sibling # nullptr
          /\ nodes[a].right_sibling < a

\* C7 (no internal error): no Insert raises the Capacity or the
\* InvalidPosition error, that is, every InsertAt on the insert path is
\* called with position <= slotused on a node that is not full.
C7_NoInternalError == last_error \notin {"Capacity", "InvalidPosition"}

\* The insert that split a leaf, split the full inner root with the pending
\* separator kept in it (InsertAt on both node kinds) and grew the root a
\* second time returned without an error.
C7_Witness ==
    /\ ~it_live
    /\ SplitKept
    /\ last_error = "none"

\* C8 (duplicate tolerance): a full Begin() scan holds every key as often as
\* it was inserted, and every inserted pair is in it with its own value.
C8_Duplicates ==
    (ScanDone /\ it_from = <<>>) =>
        /\ \A k \in Keys : KeyCount(yielded, k) = KeyCount(inserted, k)
        /\ \A i \in 1..Len(inserted) : inserted[i] \in Range(yielded)

\* A finished scan of a tree into which one key was inserted more often than
\* a leaf has slots, with an insert of another key in between.
C8_Witness ==
    /\ ScanDone /\ it_from = <<>>
    /\ \E k \in Keys :
          /\ KeyCount(yielded, k) > leaf_slotmax
          /\ \E i, j, l \in 1..Len(inserted) :
                /\ i < j /\ j < l
                /\ inserted[i][1] = k /\ inserted[j][1] # k /\ inserted[l][1] = k

C10_BeginAtEnd ==
    /\ (JustBegun /\ it_from = <<>>) => (IsEnd(nodes, it) <=> inserted = <<>>)
    /\ (inserted = <<>>) <=> (root = nullptr)
    /\ root = nullptr => /\ IsEnd(nodes, Begin(nodes, root))
                         /\ CheckIntegrity(nodes, root) = "ok"

\* Begin() was called on the tree as constructed and its iterator is at-end.
C10_Witness ==
    /\ JustBegun /\ it_from = <<>>
    /\ root = nullptr
    /\ IsEnd(nodes, it)

\* A step that is a call Insert(key, value, unique_key) with either flag.
InsertStep(key) == Insert(key, NextValue, TRUE) \/ Insert(key, NextValue, FALSE)

\* C11 (root growth): after each of the first CAP inserts the root is a
\* single leaf; the insert number CAP + 1 makes the root an inner node with
\* slotused = 1 whose keys[0] is the split key the old root returned,
\* children[0] the old root leaf and children[1] the new right leaf.
C11_RootGrowth ==
    [][\A key \in Keys : InsertStep(key) =>
          /\ Len(inserted') <= leaf_slotmax =>
                /\ root' # nullptr
                /\ IsLeaf(nodes'[root'])
                /\ Len(nodes') = 1
          /\ Len(inserted') = leaf_slotmax + 1 =>
                LET r == NodeInsert(nodes, root, key, NextValue)
                    new_root == nodes'[root']
                IN /\ r.new # nullptr
                   /\ ~IsLeaf(new_root)
                   /\ new_root.slotused = 1
                   /\ At(new_root.keys, 0) = r.key
                   /\ At(new_root.children, 0) = root
                   /\ At(new_root.children, 1) = r.new
                   /\ IsLeaf(nodes'[root]) /\ IsLeaf(nodes'[r.new])
                   /\ root' \notin {root, r.new}]_vars

\* The root has just grown for the first time: an inner root over the old
\* root leaf (address 1) and the leaf split off it (address 2).
C11_Witness ==
    /\ Len(inserted) = leaf_slotmax + 1
    /\ ~IsLeaf(nodes[root])
    /\ nodes[root].slotused = 1
    /\ At(nodes[root].children, 0) = 1
    /\ At(nodes[root].children, 1) = 2

\* C12 (height bound): after N >= 1 inserts the height H satisfies
\* H <= ceil(log_(CAP/2) N) + 1.  For H >= 2 that is N > (CAP/2)^(H-2),
\* written without fractions as N * 2^(H-2) > CAP^(H-2); for H = 1 it holds
\* of every N >= 1.
C12_HeightBound ==
    Len(inserted) >= 1 =>
        /\ Height >= 1
        /\ Height >= 2 =>
              Len(inserted) * 2 ^ (Height - 2) > leaf_slotmax ^ (Height - 2)

\* The fewest inserts that give three levels: every insert after the first
\* CAP split the rightmost leaf, the last one also the root.
C12_Witness ==
    /\ Height = 3
    /\ Len(inserted) = 2 * leaf_slotmax + 1

\* The nodes of the tree: what is reachable from id through valid child slots.
RECURSIVE TreeNodes(_, _)
TreeNodes(h, id) ==
    IF id = nullptr THEN {}
    ELSE IF IsLeaf(h[id]) THEN {id}
    ELSE {id} \cup UNION {TreeNodes(h, c) : c \in ChildIds(h[id])}

\* C13 (node well-formedness): after every Insert every node of the tree,
\* the root included, has 1 <= slotused <= CAP, and every inner node has a
\* non-null child at each index 0..slotused.
C13_WellFormed ==
    Len(inserted) >= 1 =>
        \A id \in TreeNodes(nodes, root) :
            /\ 1 <= nodes[id].slotused
            /\ nodes[id].slotused <= (IF IsLeaf(nodes[id]) THEN leaf_slotmax
                                      ELSE inner_slotmax)
            /\ ~IsLeaf(nodes[id]) =>
                  \A i \in 0..nodes[id].slotused :
                      At(nodes[id].children, i) # nullptr

\* Three levels after an inner split, with a full leaf and an inner node
\* that holds a single key.
C13_Witness ==
    /\ SplitKept
    /\ \E id \in TreeNodes(nodes, root) :
          IsLeaf(nodes[id]) /\ nodes[id].slotused = leaf_slotmax
    /\ \E id \in TreeNodes(nodes, root) :
          ~IsLeaf(nodes[id]) /\ id # root /\ nodes[id].slotused = 1

\* The pairs of the tree, leaf by leaf from left to right.
TreePairs(h, rt) == Flatten(h, LeavesInOrder(h, rt))

Position(i) == <<i.current_leaf, i.current_slot>>

\* C15 (postfix operator++ returns the old iterator): a call it++ on an
\* iterator that is not at the end moves `it` ahead and returns a copy whose
\* position is the position `it` had before the call.
C15_ReturnsOld ==
    [][(DoAdvance /\ ~IsEnd(nodes, it)) =>
          /\ Position(it') # Position(it)
          /\ Position(Advance(nodes, it).ret) = Position(it)]_vars

\* C16 (stable duplicates): a full Begin() scan yields the pairs that share
\* a key in the order in which they were inserted, whatever leaf splits,
\* inner splits and root growth happened between those inserts.
C16_StableDuplicates ==
    (ScanDone /\ it_from = <<>>) =>
        \A k \in Keys :
            LET HasKey(p) == p[1] = k
            IN SelectSeq(yielded, HasKey) = SelectSeq(inserted, HasKey)

\* A finished scan of a three-level tree (leaf splits, root growth and an
\* inner split lie behind it) in which one key fills more than a leaf and
\* was inserted both before and after pairs of another key.
C16_Witness ==
    /\ ScanDone /\ it_from = <<>>
    /\ Len(yielded) = Len(inserted)
    /\ Height = 3
    /\ HasHeavyKey
    /\ \E i, j, l \in 1..Len(inserted) :
          /\ i < j /\ j < l
          /\ inserted[i][1] = inserted[l][1]
          /\ inserted[j][1] < inserted[i][1]

\* C17 (leaf split result): when LeafNode::Insert on a full leaf returns
\* (new_leaf, split_key), then split_key = new_leaf.keys[0] and is the
\* smallest key of new_leaf, every key left in the original leaf is
\* <= split_key, the incoming pair is in the original leaf iff
\* key < split_key, and the two leaves together hold exactly the CAP old
\* pairs plus the incoming pair.
C17_LeafSplit ==
    [][\A key \in Keys :
          (InsertStep(key) /\ root # nullptr
              /\ LeafIsFull(nodes[DescentLeaf(nodes, root, key)])) =>
          LET leaf == DescentLeaf(nodes, root, key)
              r == LeafInsert(nodes, leaf, key, NextValue)
              this == r.heap[leaf]
              new_leaf == r.heap[r.new]
              incoming == <<key, NextValue>>
          IN /\ r.err = "none" /\ r.new # nullptr
             /\ r.key = At(new_leaf.keys, 0)
             /\ \A k \in ValidKeys(new_leaf) : r.key <= k
             /\ \A k \in ValidKeys(this) : k <= r.key
             /\ incoming \in Range(LeafPairs(this)) <=> key < r.key
             /\ this.slotused + new_leaf.slotused = leaf_slotmax + 1
             /\ SameMultiset(LeafPairs(this) \o LeafPairs(new_leaf),
                             Append(LeafPairs(nodes[leaf]), incoming))
             /\ LeafPairs(nodes'[leaf]) = LeafPairs(this)
             /\ LeafPairs(nodes'[r.new]) = LeafPairs(new_leaf)]_vars

\* The first leaf split has just happened and the incoming pair, smaller
\* than the split key, went into the original leaf.
C17_Witness ==
    /\ ~it_live
    /\ Len(inserted) = leaf_slotmax + 1
    /\ Len(nodes) = 3
    /\ inserted[Len(inserted)] \in Range(LeafPairs(nodes[1]))
    /\ inserted[Len(inserted)][1] < At(nodes[2].keys, 0)
    /\ At(nodes[root].keys, 0) = At(nodes[2].keys, 0)

\* The keys and the children in the valid slots of an inner node, in order.
KeySeq(n) == [i \in 1..n.slotused |-> n.keys[i]]

ChildSeq(n) == [i \in 1..(n.slotused + 1) |-> n.children[i]]

\* The sequence seq with x put in front of its element of index i (from 0).
InsertSeq(seq, i, x) == SubSeq(seq, 1, i) \o <<x>> \o SubSeq(seq, i + 1, Len(seq))

\* The inner nodes the call Insert(key, ...) passes through.
InnerOnPath(key) ==
    IF root = nullptr THEN {}
    ELSE {a \in Range(DescentPath(nodes, root, key)) : ~IsLeaf(nodes[a])}

\* This step is an Insert in which a full inner node receives the split of
\* its child at descent position p.
InnerSplitAt(p) ==
    \E key \in Keys :
        /\ InsertStep(key)
        /\ \E a \in InnerOnPath(key) :
              /\ InnerIsFull(nodes[a])
              /\ InnerFindFirstGreaterOrEqual(nodes[a], key) = p
              /\ NodeInsert(nodes, At(nodes[a].children, p), key, NextValue).new # nullptr

\* C18 (inner split equals insert-then-split): when a full inner node
\* receives a child split (sep, new_node) at descent position p and splits,
\* then this.keys ++ [promoted_key] ++ new.keys is the old key sequence with
\* sep inserted at index p, this.children ++ new.children is the old child
\* sequence with new_node inserted at index p + 1, for every p in 0..CAP;
\* the promoted key is old keys[mid] and is in neither half.
C18_InnerSplit ==
    [][\A key \in Keys : InsertStep(key) =>
          \A a \in InnerOnPath(key) :
              LET old == nodes[a]
                  p == InnerFindFirstGreaterOrEqual(old, key)
                  c == NodeInsert(nodes, At(old.children, p), key, NextValue)
                  r == InnerInsert(nodes, a, key, NextValue)
                  this == r.heap[a]
                  new == r.heap[r.new]
                  mid == old.slotused \div 2
              IN (InnerIsFull(old) /\ c.new # nullptr) =>
                    /\ r.err = "none" /\ r.new # nullptr
                    /\ KeySeq(this) \o <<r.key>> \o KeySeq(new)
                          = InsertSeq(KeySeq(old), p, c.key)
                    /\ ChildSeq(this) \o ChildSeq(new)
                          = InsertSeq(ChildSeq(old), p + 1, c.new)
                    /\ r.key = At(old.keys, mid)
                    /\ this.slotused + new.slotused = inner_slotmax
                    /\ nodes'[a] = this
                    /\ nodes'[r.new] = new]_vars

\* An inner split in which the pending separator stayed in the split node
\* (p <= mid) has happened: the left inner node holds mid + 1 keys, the new
\* right one CAP - mid - 1, and the pair inserted last is below the left one.
C18_Witness ==
    /\ ~it_live
    /\ Height = 3
    /\ nodes[root].slotused = 1
    /\ LET left == nodes[At(nodes[root].children, 0)]
           right == nodes[At(nodes[root].children, 1)]
       IN /\ left.slotused = inner_slotmax \div 2 + 1
          /\ right.slotused = inner_slotmax - inner_slotmax \div 2 - 1
          /\ \E i \in 0..left.slotused :
                inserted[Len(inserted)] \in Range(LeafPairs(nodes[At(left.children, i)]))

\* The leaves of the tree.
TreeLeaves(h, rt) == {a \in TreeNodes(h, rt) : IsLeaf(h[a])}

\* Every sibling link of the tree is answered by the link back, and the
\* leftmost leaf has no left sibling.
LinksConsistent(h, rt) ==
    /\ \A a \in TreeLeaves(h, rt) :
          /\ h[a].right_sibling # nullptr => h[h[a].right_sibling].left_sibling = a
          /\ h[a].left_sibling # nullptr => h[h[a].left_sibling].right_sibling = a
    /\ rt # nullptr => h[GetFirstLeaf(h, rt)].left_sibling = nullptr

\* C19 (sibling links): after every Insert, for every leaf L,
\* L.right_sibling != null implies L.right_sibling.left_sibling = L,
\* L.left_sibling != null implies L.left_sibling.right_sibling = L, and the
\* leftmost leaf has left_sibling = null; a leaf split of L with old right
\* neighbour R leaves new.left = L, new.right = R, L.right = new and, if R
\* is not null, R.left = new.
C19_SiblingLinks ==
    [][\A key \in Keys : InsertStep(key) =>
          /\ LinksConsistent(nodes', root')
          /\ (root # nullptr /\ LeafIsFull(nodes[DescentLeaf(nodes, root, key)])) =>
                LET L == DescentLeaf(nodes, root, key)
                    R == nodes[L].right_sibling
                    new == LeafInsert(nodes, L, key, NextValue).new
                IN /\ new # nullptr
                   /\ nodes'[new].left_sibling = L
                   /\ nodes'[new].right_sibling = R
                   /\ nodes'[L].right_sibling = new
                   /\ R # nullptr => nodes'[R].left_sibling = new]_vars

\* A leaf that had a right neighbour was split: the leaf allocated last
\* stands between two older leaves, and the pair inserted last is in it or
\* in the leaf it was split from.
C19_Witness ==
    /\ ~it_live
    /\ \E new \in TreeLeaves(nodes, root) :
          /\ \A a \in TreeLeaves(nodes, root) : a <= new
          /\ nodes[new].right_sibling # nullptr
          /\ nodes[new].left_sibling # nullptr
          /\ nodes[nodes[new].right_sibling].left_sibling = new
          /\ inserted[Len(inserted)] \in
                Range(LeafPairs(nodes[new])) \cup
                Range(LeafPairs(nodes[nodes[new].left_sibling]))

\* The heap and the root on which BPlusTree::Insert calls root->Insert: an
\* empty tree has got its leaf root by then.
HeapAtDescent == IF root = nullptr THEN Append(nodes, NewLeafNode) ELSE nodes

RootAtDescent == IF root = nullptr THEN Len(nodes) + 1 ELSE root

\* What a step Insert(key, ...) whose descent ends in a leaf that is not full
\* does below the root reference: the pair goes into that leaf and nowhere
\* else, the pairs the leaf had keep their order, no node is allocated, every
\* other node and the leaf's own sibling links stay as they were, and every
\* node on the path returns (none).
FrameBelowRoot(key) ==
    LET h0 == HeapAtDescent
        path == DescentPath(h0, RootAtDescent, key)
        leaf == path[Len(path)]
        incoming == <<key, NextValue>>
        NotIncoming(pair) == pair # incoming
    IN /\ Len(nodes') = Len(h0)
       /\ \A a \in 1..Len(h0) : a # leaf => nodes'[a] = h0[a]
       /\ nodes'[leaf].slotused = h0[leaf].slotused + 1
       /\ incoming \in Range(LeafPairs(nodes'[leaf]))
       /\ SelectSeq(LeafPairs(nodes'[leaf]), NotIncoming) = LeafPairs(h0[leaf])
       /\ nodes'[leaf].left_sibling = h0[leaf].left_sibling
       /\ nodes'[leaf].right_sibling = h0[leaf].right_sibling
       /\ \A i \in 1..Len(path) :
             LET r == NodeInsert(h0, path[i], key, NextValue)
             IN r.new = nullptr /\ r.err = "none"
       /\ last_error' = "none"

\* The leaf in which the descent of Insert(key, ...) ends is not full.
TargetNotFull(key) ==
    ~LeafIsFull(HeapAtDescent[DescentLeaf(HeapAtDescent, RootAtDescent, key)])

\* C20 as stated (frame of a non-splitting insert): when the leaf reached by
\* the descent is not full, Insert adds the pair to that leaf only
\* (slotused + 1, existing pairs keep their relative order) and leaves
\* unchanged the root reference, every inner node, every other leaf and all
\* sibling links; every node on the path returns (none).
C20_FrameAsStated ==
    [][\A key \in Keys : (InsertStep(key) /\ TargetNotFull(key)) =>
          /\ FrameBelowRoot(key)
          /\ root' = root]_vars

\* C20 as amended: the same, except that the root reference is unchanged
\* only when the tree had a root; the Insert into the empty tree sets it
\* from null to the leaf it allocates.
C20_Frame ==
    [][\A key \in Keys : (InsertStep(key) /\ TargetNotFull(key)) =>
          /\ FrameBelowRoot(key)
          /\ root # nullptr => root' = root
          /\ root = nullptr => root' = Len(nodes') /\ IsLeaf(nodes'[root'])]_vars

\* The last Insert went into a three-level tree without a split: the pair
\* inserted last is in a leaf that is neither the leaf allocated last nor
\* the left neighbour of that leaf.
C20_Witness ==
    /\ ~it_live
    /\ Height = 3
    /\ \E a, new \in TreeLeaves(nodes, root) :
          /\ \A b \in TreeLeaves(nodes, root) : b <= new
          /\ a # new
          /\ nodes[a].right_sibling # new
          /\ inserted[Len(inserted)] \in Range(LeafPairs(nodes[a]))

\* C21 (iterator ordering under interleaved inserts): the pairs one iterator
\* from Begin() yields through dereference/advance have non-decreasing keys
\* and no pair is among them twice, also when Insert calls on the same tree
\* are executed between the iterator's operations.
C21_IteratorOrder ==
    (it_live /\ it_from = <<>>) =>
        /\ NonDecreasing(trail)
        /\ \A i, j \in 1..Len(trail) : i < j => trail[i] # trail[j]

\* C22 (leaf split re-insert terminates in one step): when a full leaf
\* splits, the recursive Insert of the incoming pair into the chosen half
\* finds that half not full, performs no second split and returns (none), so
\* the recursion inside LeafNode::Insert is one call deep.
C22_OneStepReinsert ==
    [][\A key \in Keys :
          (InsertStep(key) /\ root # nullptr
              /\ LeafIsFull(nodes[DescentLeaf(nodes, root, key)])) =>
          LET leaf == DescentLeaf(nodes, root, key)
              h1 == LeafSplitMove(nodes, leaf)
              half == LeafSplitTarget(nodes, leaf, key)
              inner == LeafInsert(h1, half, key, NextValue)
              outer == LeafInsert(nodes, leaf, key, NextValue)
          IN /\ ~LeafIsFull(h1[half])
             /\ inner.new = nullptr /\ inner.err = "none"
             /\ Len(inner.heap) = Len(h1)
             /\ Len(outer.heap) = Len(nodes) + 1
             /\ \A a \in {leaf, outer.new} :
                   /\ LeafPairs(outer.heap[a]) = LeafPairs(inner.heap[a])
                   /\ LeafPairs(nodes'[a]) = LeafPairs(inner.heap[a])]_vars

\* The root leaf was split and the incoming pair went into the new leaf: the
\* split leaf holds the CAP/2 pairs it kept, the new leaf the other old pairs
\* and, by one re-insert, the pair inserted last.
C22_Witness ==
    /\ ~it_live
    /\ Len(inserted) = leaf_slotmax + 1
    /\ Len(nodes) = 3
    /\ nodes[1].slotused = leaf_slotmax \div 2
    /\ nodes[2].slotused = leaf_slotmax - leaf_slotmax \div 2 + 1
    /\ inserted[Len(inserted)] \in Range(LeafPairs(nodes[2]))

\* The entries of children arrays that refer to node c: the pairs of an
\* inner node and a slot of its array, the slots beyond slotused included.
ReferencesTo(c) ==
    {<<a, i>> \in InnerIds \X (0..inner_slotmax) : At(nodes[a].children, i) = c}

\* C23 (exclusive child ownership): every node other than the root is
\* referenced by exactly one entry over all slots of all inner nodes'
\* children arrays, the slots beyond slotused included; after an inner split
\* the split node keeps no reference to a child that went to the new node.
C23_ExclusiveOwnership ==
    \A c \in 1..Len(nodes) : c # root => Cardinality(ReferencesTo(c)) = 1

====
